---------------------------- MODULE Spec2Model ----------------------------
(***************************************************************************)
(* Model of the split-bill bot (src/app.py): the six SQLite tables, the    *)
(* update handlers that read and write them, and the settlement helper     *)
(* minimize_transactions.                                                  *)
(*                                                                         *)
(* Money.  The REAL columns and Python floats are modelled as exact        *)
(* rationals with the common denominator Scale: a stored amount a is the   *)
(* integer a * Scale.  Scale is a multiple of 100 and of every divisor the *)
(* code can use (a participant count or a chooser count, both at most      *)
(* NumUsers), so every division of the code is exact in the model and the  *)
(* threshold 0.01 is the integer Eps.                                      *)
(*                                                                         *)
(* Columns that no handler reads back into a decision or a computation     *)
(* (username, creator_username, description, created_at) are not stored.   *)
(***************************************************************************)
EXTENDS Integers, Sequences, FiniteSets, Bags, TLC

\* ------------------------------------------------------------------ bounds
NumUsers == 3
NumChats == 2
MaxBills == 1
MaxRestos == 1
MaxExpenses == 2
MaxItems == 2
MixRows == 1
MaxGrid == 8
MaxPhotos == 2
FrameRows == 2
SettleUsers == 4

Users == 1..NumUsers
Chats == 1..NumChats

\* ------------------------------------------------------------------- money
RECURSIVE Gcd(_, _)
Gcd(a, b) == IF b = 0 THEN a ELSE Gcd(b, a % b)

RECURSIVE LcmUpTo(_)
LcmUpTo(n) == IF n <= 1 THEN 1 ELSE LET l == LcmUpTo(n - 1) IN (l * n) \div Gcd(l, n)

Scale == 100 * LcmUpTo(NumUsers)
Eps == Scale \div 100

Abs(x) == IF x < 0 THEN -x ELSE x
MinTakesFirst(a, b) == a

Min(a, b) == IF a <= b THEN a ELSE b

RECURSIVE SeqSum(_)
SeqSum(s) == IF s = <<>> THEN 0 ELSE Head(s) + SeqSum(Tail(s))

\* ------------------------------------------------- minimize_transactions
\* A balance mapping is a Python dict: a sequence of <<uid, amount>> in
\* insertion order.  list.sort(key=..., reverse=True) is stable: elements
\* with equal keys keep their original order.
RECURSIVE InsertDesc(_, _)
InsertDesc(sorted, e) ==
    IF sorted = <<>> THEN <<e>>
    ELSE IF Head(sorted)[2] >= e[2] THEN <<Head(sorted)>> \o InsertDesc(Tail(sorted), e)
    ELSE <<e>> \o sorted

SortDescNone(s) == s

\* Lines 209-210.
RECURSIVE SortDesc(_)
SortDesc(s) ==
    IF s = <<>> THEN <<>>
    ELSE InsertDesc(SortDesc(SubSeq(s, 1, Len(s) - 1)), s[Len(s)])

DebtorsNoThreshold(balances) ==
    LET neg == SelectSeq(balances, LAMBDA p : p[2] < 0)
    IN  [k \in 1..Len(neg) |-> <<neg[k][1], -neg[k][2]>>]

\* Lines 206-207.
Debtors(balances) ==
    LET neg == SelectSeq(balances, LAMBDA p : p[2] < -Eps)
    IN  [k \in 1..Len(neg) |-> <<neg[k][1], -neg[k][2]>>]

Creditors(balances) == SelectSeq(balances, LAMBDA p : p[2] > Eps)

\* The state of the loop at lines 212-227; i and j count from 1.
MTStart(balances) ==
    [debtors   |-> SortDesc(Debtors(balances)),
     creditors |-> SortDesc(Creditors(balances)),
     i |-> 1, j |-> 1, txs |-> <<>>]

MTRunning(s) == s.i <= Len(s.debtors) /\ s.j <= Len(s.creditors)

MTAdvanceAlways(rest) == TRUE

MTAdvanceNegative(rest) == rest < 0

\* Lines 220 and 224: a party is passed once at most 0.01 remains.
MTAdvance(rest) == rest <= Eps

MTStep(s) ==
    LET duid   == s.debtors[s.i][1]
        debt   == s.debtors[s.i][2]
        cuid   == s.creditors[s.j][1]
        cred   == s.creditors[s.j][2]
        amount == Min(debt, cred)
        debt2  == debt - amount
        cred2  == cred - amount
    IN  [debtors   |-> IF MTAdvance(debt2) THEN s.debtors
                       ELSE [s.debtors EXCEPT ![s.i] = <<duid, debt2>>],
         creditors |-> IF MTAdvance(cred2) THEN s.creditors
                       ELSE [s.creditors EXCEPT ![s.j] = <<cuid, cred2>>],
         i   |-> IF MTAdvance(debt2) THEN s.i + 1 ELSE s.i,
         j   |-> IF MTAdvance(cred2) THEN s.j + 1 ELSE s.j,
         txs |-> Append(s.txs, <<duid, cuid, amount>>)]

RECURSIVE MTRun(_)
MTRun(s) == IF MTRunning(s) THEN MTRun(MTStep(s)) ELSE s

minimize_transactions(balances) == MTRun(MTStart(balances)).txs

\* ------------------------------------------------------------ text inputs
\* A string is a sequence of one-character strings; a message text is the
\* sequence of its whitespace-separated words.
Digits == <<"0", "1", "2", "3", "4", "5", "6", "7", "8", "9">>

IsDigit(c) == \E k \in 1..Len(Digits) : Digits[k] = c

DigitVal(c) == (CHOOSE k \in 1..Len(Digits) : Digits[k] = c) - 1

\* str.replace(ch, "")
RemoveChar(s, ch) == SelectSeq(s, LAMBDA c : c # ch)

RECURSIVE DigitsValue(_)
DigitsValue(s) ==
    IF s = <<>> THEN 0
    ELSE 10 * DigitsValue(SubSeq(s, 1, Len(s) - 1)) + DigitVal(s[Len(s)])

\* float(str) restricted to strings over digits, "-", "," and letters: such
\* a string is a float literal exactly when it is an optional "-" followed
\* by one or more digits.  [ok |-> FALSE] stands for ValueError.
ParseFloat(s) ==
    LET neg  == s # <<>> /\ Head(s) = "-"
        body == IF neg THEN Tail(s) ELSE s
    IN  IF body # <<>> /\ \A k \in 1..Len(body) : IsDigit(body[k])
        THEN [ok |-> TRUE, value |-> IF neg THEN -DigitsValue(body) ELSE DigitsValue(body)]
        ELSE [ok |-> FALSE, value |-> 0]

\* amount_str.replace(" ", "").replace(",", "") followed by float().
ParseAmount(amount_str) == ParseFloat(RemoveChar(RemoveChar(amount_str, " "), ","))

\* text.rsplit(maxsplit=1): the words but the last joined, and the last word.
RSplit1(words) ==
    IF Len(words) >= 2 THEN <<SubSeq(words, 1, Len(words) - 1), words[Len(words)]>>
    ELSE IF Len(words) = 1 THEN <<words[1]>>
    ELSE <<>>

\* str.strip()
RECURSIVE LStrip(_)
LStrip(s) == IF s # <<>> /\ Head(s) = " " THEN LStrip(Tail(s)) ELSE s

RECURSIVE RStrip(_)
RStrip(s) == IF s # <<>> /\ s[Len(s)] = " " THEN RStrip(SubSeq(s, 1, Len(s) - 1)) ELSE s

Strip(s) == RStrip(LStrip(s))

\* The texts users send while a bill is open.
TextPizza == << <<"p">>, <<"9", "0", "0", "0", "0">> >>
TextTaxi == << <<"t">>, <<"3", "0", ",", "0", "0", "0">> >>
TextHi == << <<"h", "i">> >>
TextBad == << <<"b">>, <<"1", "2", "x">> >>
TextZero == << <<"z">>, <<"0">> >>
TextNeg == << <<"r">>, <<"-", "5", "0", "0", "0">> >>
ExpenseTexts == {TextPizza, TextTaxi, TextHi, TextBad, TextZero, TextNeg}

\* The items the extraction service may return for a photo.
Pizza == [name |-> <<"P">>, price |-> 50000, quantity |-> 1]
Cola == [name |-> <<"C">>, price |-> 10000, quantity |-> 2]
Blank == [name |-> <<" ">>, price |-> 50000, quantity |-> 1]
Free == [name |-> <<"F">>, price |-> 0, quantity |-> 0]
Receipt == <<Pizza, Cola, Blank, Free>>

\* The subsequence of s at the positions in I.
RECURSIVE Pick(_, _)
Pick(s, I) ==
    IF s = <<>> THEN <<>>
    ELSE LET rest == Pick(SubSeq(s, 1, Len(s) - 1), I)
         IN  IF Len(s) \in I THEN Append(rest, s[Len(s)]) ELSE rest

\* What the extraction call at lines 447-476 yields: an exception, a text
\* extract_json cannot parse, or a parsed item list (possibly empty), here
\* up to MaxItems lines of Receipt.
Extractions ==
    {[kind |-> "error", items |-> <<>>], [kind |-> "unparsable", items |-> <<>>]}
    \cup {[kind |-> "items", items |-> Pick(Receipt, I)] :
             I \in {J \in SUBSET (1..Len(Receipt)) : Cardinality(J) <= MaxItems}}

\* ------------------------------------------------------------------ state
VARIABLES
    bills,              \* table bills: rows [chat_id, creator_id, status, closed_at]; id = index
    bill_participants,  \* table bill_participants: rows [bill_id, user_id]
    expenses,           \* table expenses: rows [bill_id, user_id, amount]
    resto_sessions,     \* table resto_sessions: rows as in bills
    resto_items,        \* table resto_items: rows [session_id, item_name, price, quantity, is_shared]
    resto_choices,      \* table resto_choices: a bag of <<item_id, user_id>> (no UNIQUE constraint)
    now,                \* the clock read by datetime.now()
    out,                \* what the last handler answered
    mt_in,              \* minimize_transactions run step by step: its argument,
    mt,                 \*   the loop state,
    mt_pc,              \*   and the position ("idle", "loop", "done")
    photos              \* the handle_receipt_photo coroutines suspended at an await
                        \*   after their checks: a bag of [chat_id, session_id, user_id]

db == <<bills, bill_participants, expenses, resto_sessions, resto_items, resto_choices>>
mtvars == <<mt_in, mt, mt_pc>>
vars == <<bills, bill_participants, expenses, resto_sessions, resto_items, resto_choices,
          now, out, mt_in, mt, mt_pc, photos>>

NoTime == 0

\* A reply: which of the handler's messages (or silent returns) ended the
\* update, and for a close the figures of the summary message.
Reply(r) == [result |-> r, total |-> 0, balances |-> <<>>, txs |-> <<>>, costs |-> <<>>]

MTIdle == [debtors |-> <<>>, creditors |-> <<>>, i |-> 1, j |-> 1, txs |-> <<>>]

Init ==
    /\ bills = <<>>
    /\ bill_participants = <<>>
    /\ expenses = <<>>
    /\ resto_sessions = <<>>
    /\ resto_items = <<>>
    /\ resto_choices = EmptyBag
    /\ now = 0
    /\ out = Reply("Started")
    /\ mt_in = <<>>
    /\ mt = MTIdle
    /\ mt_pc = "idle"
    /\ photos = EmptyBag

\* ---------------------------------------------------------------- queries
Ids(table) == 1..Len(table)

OpenIdsAnyChat(table, chat_id) == {id \in Ids(table) : table[id].status = "open"}

\* SELECT id FROM <table> WHERE chat_id = ? AND status = 'open'
OpenIds(table, chat_id) ==
    {id \in Ids(table) : table[id].chat_id = chat_id /\ table[id].status = "open"}

SetMin(S) == CHOOSE x \in S : \A y \in S : x <= y
SetMax(S) == CHOOSE x \in S : \A y \in S : x >= y

\* fetchone() of a query without ORDER BY: the row with the lowest id.
FetchOne(S) == SetMin(S)

\* SELECT user_id FROM bill_participants WHERE bill_id = ?  (in id order)
ParticipantsOf(bill_id) ==
    LET rows == SelectSeq(bill_participants, LAMBDA r : r.bill_id = bill_id)
    IN  [k \in 1..Len(rows) |-> rows[k].user_id]

IsParticipantNever(bill_id, user_id) == FALSE

\* A row of bill_participants for the pair: what the SELECT of line 341
\* finds and what the UNIQUE constraint of line 141 refuses to duplicate.
IsParticipant(bill_id, user_id) ==
    \E k \in 1..Len(bill_participants) :
        bill_participants[k].bill_id = bill_id /\ bill_participants[k].user_id = user_id

\* SELECT user_id, amount FROM expenses WHERE bill_id = ?
ExpensesOf(bill_id) == SelectSeq(expenses, LAMBDA r : r.bill_id = bill_id)

\* SELECT ... FROM resto_items WHERE session_id = ?  (ids)
ItemIdsOf(session_id) == {id \in Ids(resto_items) : resto_items[id].session_id = session_id}

\* Rows of resto_choices for one item, per user.
Copies(choices, item_id, user_id) == CopiesIn(<<item_id, user_id>>, choices)

\* len(choosers) at line 714
NumChoosers(choices, item_id) ==
    SeqSum([u \in 1..NumUsers |-> Copies(choices, item_id, u)])

\* --------------------------------------------------------- /newbill, join
newbill_unchecked(chat_id, user_id) ==
    /\ bills' = Append(bills, [chat_id |-> chat_id, creator_id |-> user_id,
                               status |-> "open", closed_at |-> NoTime])
    /\ out' = Reply("BillCreated")
    /\ UNCHANGED <<bill_participants, expenses, resto_sessions, resto_items,
                   resto_choices, now, mtvars>>

\* newbill, lines 258-286.  Nothing is awaited between the SELECT of line
\* 266 and the commit of line 276, nor in resto between lines 376 and 385.
newbill(chat_id, user_id) ==
    /\ IF OpenIds(bills, chat_id) # {}
       THEN /\ out' = Reply("AlreadyOpen")
            /\ UNCHANGED bills
       ELSE /\ bills' = Append(bills, [chat_id |-> chat_id, creator_id |-> user_id,
                                       status |-> "open", closed_at |-> NoTime])
            /\ out' = Reply("BillCreated")
    /\ UNCHANGED <<bill_participants, expenses, resto_sessions, resto_items,
                   resto_choices, now, mtvars>>

JoinAllowedNoStatus(bill_id) == bill_id \in Ids(bills)

\* The status check of join_bill_callback, lines 298-300.
JoinAllowed(bill_id) == bill_id \in Ids(bills) /\ bills[bill_id].status = "open"

\* join_bill_callback, lines 288-323.  The INSERT raises IntegrityError on
\* the UNIQUE (bill_id, user_id) constraint.
join_bill_callback(bill_id, user_id) ==
    /\ IF ~JoinAllowed(bill_id)
       THEN /\ out' = Reply("NotOpen")
            /\ UNCHANGED bill_participants
       ELSE IF IsParticipant(bill_id, user_id)
       THEN /\ out' = Reply("AlreadyJoined")
            /\ UNCHANGED bill_participants
       ELSE /\ bill_participants' =
                   Append(bill_participants, [bill_id |-> bill_id, user_id |-> user_id])
            /\ out' = Reply("Joined")
    /\ UNCHANGED <<bills, expenses, resto_sessions, resto_items, resto_choices, now, mtvars>>

ExpenseAllowedAnyone(bill_id, user_id) == TRUE

\* The participant check of handle_expense, lines 341-344.
ExpenseAllowed(bill_id, user_id) == IsParticipant(bill_id, user_id)

\* handle_expense, lines 325-365.  Every early return is silent.
handle_expense(chat_id, user_id, text) ==
    /\ IF OpenIds(bills, chat_id) = {}
       THEN /\ out' = Reply("NoOpenSession")
            /\ UNCHANGED expenses
       ELSE LET bill_id == FetchOne(OpenIds(bills, chat_id))
                parts_  == RSplit1(text)
                parsed  == ParseAmount(parts_[2])
            IN  IF ~ExpenseAllowed(bill_id, user_id)
                THEN /\ out' = Reply("NotAParticipant")
                     /\ UNCHANGED expenses
                ELSE IF Len(parts_) # 2 \/ ~parsed.ok
                THEN /\ out' = Reply("InvalidAmount")
                     /\ UNCHANGED expenses
                ELSE /\ expenses' = Append(expenses, [bill_id |-> bill_id, user_id |-> user_id,
                                                      amount |-> parsed.value * Scale])
                     /\ out' = [Reply("Recorded")
                                   EXCEPT !.total = parsed.value * Scale]
    /\ UNCHANGED <<bills, bill_participants, resto_sessions, resto_items, resto_choices,
                   now, mtvars>>

\* ------------------------------------------------------- /resto, receipts
\* resto, lines 368-392.
resto(chat_id, user_id) ==
    /\ IF OpenIds(resto_sessions, chat_id) # {}
       THEN /\ out' = Reply("AlreadyOpen")
            /\ UNCHANGED resto_sessions
       ELSE /\ resto_sessions' = Append(resto_sessions,
                   [chat_id |-> chat_id, creator_id |-> user_id,
                    status |-> "open", closed_at |-> NoTime])
            /\ out' = Reply("RestoCreated")
    /\ UNCHANGED <<bills, bill_participants, expenses, resto_items, resto_choices, now, mtvars>>

\* The loop body of lines 483-499 for one extracted item: the row to insert,
\* or <<>> when the item is skipped.  `x or 1` turns a quantity of 0 into 1.
ItemRows(session_id, item) ==
    LET name  == Strip(item.name)
        price == item.price
        qty   == IF item.quantity = 0 THEN 1 ELSE item.quantity
    IN  IF name = <<>> \/ price <= 0 THEN <<>>
        ELSE <<[session_id |-> session_id, item_name |-> name, price |-> price * Scale,
                quantity |-> qty, is_shared |-> FALSE]>>

RECURSIVE InsertItems(_, _)
InsertItems(session_id, items) ==
    IF items = <<>> THEN <<>>
    ELSE ItemRows(session_id, Head(items)) \o InsertItems(session_id, Tail(items))

AlreadyIngestedNever(session_id) == FALSE

AlreadyIngestedAlways(session_id) == TRUE

\* The "already loaded" check of handle_receipt_photo, lines 413-417.
AlreadyIngested(session_id) == ItemIdsOf(session_id) # {}

\* handle_receipt_photo, lines 394-514, handled without interruption.
handle_receipt_photo(chat_id, user_id, extraction) ==
    /\ IF OpenIds(resto_sessions, chat_id) = {}
       THEN /\ out' = Reply("NoOpenSession")
            /\ UNCHANGED resto_items
       ELSE LET session_id == FetchOne(OpenIds(resto_sessions, chat_id))
            IN  IF user_id # resto_sessions[session_id].creator_id
                THEN /\ out' = Reply("ForbiddenUpload")
                     /\ UNCHANGED resto_items
                ELSE IF AlreadyIngested(session_id)
                THEN /\ out' = Reply("AlreadyIngested")
                     /\ UNCHANGED resto_items
                ELSE IF extraction.kind = "error"
                THEN /\ out' = Reply("ExtractionError")
                     /\ UNCHANGED resto_items
                ELSE IF extraction.kind = "unparsable"
                THEN /\ out' = Reply("ExtractionUnparsable")
                     /\ UNCHANGED resto_items
                ELSE IF extraction.items = <<>>
                THEN /\ out' = Reply("ExtractionEmpty")
                     /\ UNCHANGED resto_items
                ELSE /\ resto_items' = resto_items \o InsertItems(session_id, extraction.items)
                     /\ out' = Reply("Ingested")
    /\ UNCHANGED <<bills, bill_participants, expenses, resto_sessions, resto_choices,
                   now, mtvars>>

\* handle_receipt_photo as a coroutine.  Its checks (lines 394-417) run
\* without suspension; it then closes its connection and awaits the reply,
\* the download and the extraction (lines 419-459), and other handlers can
\* run meanwhile when the application handles updates concurrently.
photo_check(chat_id, user_id) ==
    /\ IF OpenIds(resto_sessions, chat_id) = {}
       THEN /\ out' = Reply("NoOpenSession")
            /\ UNCHANGED photos
       ELSE LET session_id == FetchOne(OpenIds(resto_sessions, chat_id))
            IN  IF user_id # resto_sessions[session_id].creator_id
                THEN /\ out' = Reply("ForbiddenUpload")
                     /\ UNCHANGED photos
                ELSE IF AlreadyIngested(session_id)
                THEN /\ out' = Reply("AlreadyIngested")
                     /\ UNCHANGED photos
                ELSE /\ photos' = photos (+) SetToBag({[chat_id |-> chat_id,
                                                        session_id |-> session_id,
                                                        user_id |-> user_id]})
                     /\ out' = Reply("Processing")
    /\ UNCHANGED <<db, now, mtvars>>

\* The rest of the coroutine once the extraction call has returned or
\* raised, lines 461-514.  The rows are inserted under the session_id read
\* before the awaits; neither the session's status nor the "already
\* loaded" check is looked at again.
photo_finish(task, extraction) ==
    /\ BagIn(task, photos)
    /\ photos' = photos (-) SetToBag({task})
    /\ IF extraction.kind = "error"
       THEN /\ out' = Reply("ExtractionError")
            /\ UNCHANGED resto_items
       ELSE IF extraction.kind = "unparsable"
       THEN /\ out' = Reply("ExtractionUnparsable")
            /\ UNCHANGED resto_items
       ELSE IF extraction.items = <<>>
       THEN /\ out' = Reply("ExtractionEmpty")
            /\ UNCHANGED resto_items
       ELSE /\ resto_items' = resto_items \o InsertItems(task.session_id, extraction.items)
            /\ out' = Reply("Ingested")
    /\ UNCHANGED <<bills, bill_participants, expenses, resto_sessions, resto_choices,
                   now, mtvars>>

\* ----------------------------------------------------------- item choices
ToggleChoiceAddOnly(choices, item_id, user_id) ==
    choices (+) SetToBag({<<item_id, user_id>>})

\* Lines 568-576: delete the user's rows for the item if there are any,
\* insert one otherwise.
ToggleChoice(choices, item_id, user_id) ==
    IF Copies(choices, item_id, user_id) > 0
    THEN [p \in DOMAIN choices \ {<<item_id, user_id>>} |-> choices[p]]
    ELSE choices (+) SetToBag({<<item_id, user_id>>})

ToggleAllowedAnyStatus(item_id) == item_id \in Ids(resto_items)

\* The status check of handle_item_choice, lines 555-565.
ToggleAllowed(item_id) ==
    /\ item_id \in Ids(resto_items)
    /\ resto_sessions[resto_items[item_id].session_id].status = "open"

\* handle_item_choice for callback data "item_<id>", lines 545-595.
handle_item_choice(item_id, user_id) ==
    /\ IF ~ToggleAllowed(item_id)
       THEN /\ out' = Reply("SessionClosed")
            /\ UNCHANGED resto_choices
       ELSE /\ resto_choices' = ToggleChoice(resto_choices, item_id, user_id)
            /\ out' = Reply(IF Copies(resto_choices, item_id, user_id) > 0
                          THEN "Unclaimed" ELSE "Claimed")
    /\ UNCHANGED <<bills, bill_participants, expenses, resto_sessions, resto_items,
                   now, mtvars>>

\* ------------------------------------------------------------------ close
\* close_newbill, lines 650-657: total, per_person, user_paid, balances.
BillTotal(bill_id) ==
    LET exp == ExpensesOf(bill_id) IN SeqSum([k \in 1..Len(exp) |-> exp[k].amount])

PerPersonByExpenses(bill_id) == BillTotal(bill_id) \div Len(ExpensesOf(bill_id))

PerPerson(bill_id) == BillTotal(bill_id) \div Len(ParticipantsOf(bill_id))

UserPaid(bill_id, user_id) ==
    LET exp == SelectSeq(ExpensesOf(bill_id), LAMBDA r : r.user_id = user_id)
    IN  SeqSum([k \in 1..Len(exp) |-> exp[k].amount])

Balances(bill_id) ==
    LET participants == ParticipantsOf(bill_id)
    IN  [k \in 1..Len(participants) |->
            <<participants[k], UserPaid(bill_id, participants[k]) - PerPerson(bill_id)>>]

close_newbill_unchecked(bill_id) ==
    /\ IF ParticipantsOf(bill_id) = <<>>
       THEN /\ out' = Reply("NoParticipants")
            /\ UNCHANGED <<bills, now>>
       ELSE /\ now' = now + 1
            /\ bills' = [bills EXCEPT ![bill_id].status = "closed",
                                      ![bill_id].closed_at = now']
            /\ out' = [Reply("BillClosed")
                       EXCEPT !.total = BillTotal(bill_id),
                              !.balances = Balances(bill_id),
                              !.txs = minimize_transactions(Balances(bill_id))]
    /\ UNCHANGED <<bill_participants, expenses, resto_sessions, resto_items,
                   resto_choices, mtvars>>

\* close_newbill, lines 633-677.
close_newbill(bill_id) ==
    /\ IF ParticipantsOf(bill_id) = <<>>
       THEN /\ out' = Reply("NoParticipants")
            /\ UNCHANGED <<bills, now>>
       ELSE IF ExpensesOf(bill_id) = <<>>
       THEN /\ out' = Reply("NoExpenses")
            /\ UNCHANGED <<bills, now>>
       ELSE /\ now' = now + 1
            /\ bills' = [bills EXCEPT ![bill_id].status = "closed",
                                      ![bill_id].closed_at = now']
            /\ out' = [Reply("BillClosed")
                       EXCEPT !.total = BillTotal(bill_id),
                              !.balances = Balances(bill_id),
                              !.txs = minimize_transactions(Balances(bill_id))]
    /\ UNCHANGED <<bill_participants, expenses, resto_sessions, resto_items,
                   resto_choices, mtvars>>

\* close_resto, lines 683-694: the distinct choosers of the session's items,
\* plus the creator.
RestoParticipants(session_id) ==
    {u \in Users : \E id \in ItemIdsOf(session_id) : Copies(resto_choices, id, u) > 0}
    \cup {resto_sessions[session_id].creator_id}

\* price * quantity of one row of resto_items (line 707).
TotalPrice(item_id) == resto_items[item_id].price * resto_items[item_id].quantity

ItemShareWhole(item_id, user_id) ==
    IF resto_items[item_id].is_shared THEN 0
    ELSE TotalPrice(item_id) * Copies(resto_choices, item_id, user_id)

\* Lines 710-716: what one item adds to user_totals[user_id].
ItemShare(item_id, user_id) ==
    LET k == NumChoosers(resto_choices, item_id)
    IN  IF resto_items[item_id].is_shared \/ k = 0 THEN 0
        ELSE (TotalPrice(item_id) \div k) * Copies(resto_choices, item_id, user_id)

\* Lines 705-709: the pool of the shared items.
SharedTotal(session_id) ==
    SeqSum([id \in 1..Len(resto_items) |->
               IF resto_items[id].session_id = session_id /\ resto_items[id].is_shared
               THEN TotalPrice(id) ELSE 0])

\* Lines 701-721: user_totals.
UserTotals(session_id) ==
    LET participants == RestoParticipants(session_id)
        shared       == SharedTotal(session_id)
        per_person   == IF shared > 0 THEN shared \div Cardinality(participants) ELSE 0
    IN  [u \in participants |->
            SeqSum([id \in 1..Len(resto_items) |->
                       IF resto_items[id].session_id = session_id
                       THEN ItemShare(id, u) ELSE 0])
            + per_person]

\* close_resto, lines 679-748.
close_resto(session_id) ==
    /\ IF RestoParticipants(session_id) = {}
       THEN /\ out' = Reply("NoParticipants")
            /\ UNCHANGED <<resto_sessions, now>>
       ELSE /\ now' = now + 1
            /\ resto_sessions' = [resto_sessions EXCEPT ![session_id].status = "closed",
                                                        ![session_id].closed_at = now']
            /\ out' = [Reply("RestoClosed")
                       EXCEPT !.costs = UserTotals(session_id),
                              !.total = SeqSum([u \in 1..NumUsers |->
                                            IF u \in RestoParticipants(session_id)
                                            THEN UserTotals(session_id)[u] ELSE 0])]
    /\ UNCHANGED <<bills, bill_participants, expenses, resto_items, resto_choices, mtvars>>

MayCloseAnyone(user_id, creator_id) == TRUE

\* The creator checks of closebill (lines 614, 623) and of the close button
\* (line 536).
MayClose(user_id, creator_id) == user_id = creator_id

\* closebill, lines 599-631: an open bill is handled before an open
\* restaurant session.
closebill(chat_id, user_id) ==
    IF OpenIds(bills, chat_id) # {}
    THEN LET bill_id == FetchOne(OpenIds(bills, chat_id))
         IN  IF ~MayClose(user_id, bills[bill_id].creator_id)
             THEN /\ out' = Reply("Forbidden")
                  /\ UNCHANGED <<db, now, mtvars>>
             ELSE close_newbill(bill_id)
    ELSE IF OpenIds(resto_sessions, chat_id) # {}
    THEN LET session_id == FetchOne(OpenIds(resto_sessions, chat_id))
         IN  IF ~MayClose(user_id, resto_sessions[session_id].creator_id)
             THEN /\ out' = Reply("Forbidden")
                  /\ UNCHANGED <<db, now, mtvars>>
             ELSE close_resto(session_id)
    ELSE /\ out' = Reply("NoOpenSession")
         /\ UNCHANGED <<db, now, mtvars>>

\* handle_item_choice for callback data "close_resto", lines 524-543: the
\* open session of the chat with the highest id.
close_resto_button(chat_id, user_id) ==
    IF OpenIds(resto_sessions, chat_id) = {}
    THEN /\ out' = Reply("NoOpenSession")
         /\ UNCHANGED <<db, now, mtvars>>
    ELSE LET session_id == SetMax(OpenIds(resto_sessions, chat_id))
         IN  IF ~MayClose(user_id, resto_sessions[session_id].creator_id)
             THEN /\ out' = Reply("Forbidden")
                  /\ UNCHANGED <<db, now, mtvars>>
             ELSE close_resto(session_id)

\* ------------------------------------------------------------- the system
\* The updates the dispatcher built at line 804 hands to the handlers, one
\* at a time.  The tables are kept within the bounds.
DoNewbill == \E c \in Chats, u \in Users : newbill(c, u) /\ UNCHANGED photos
DoJoin == \E b \in Ids(bills), u \in Users : join_bill_callback(b, u) /\ UNCHANGED photos
DoExpense ==
    \E c \in Chats, u \in Users, t \in ExpenseTexts :
        handle_expense(c, u, t) /\ UNCHANGED photos
DoResto == \E c \in Chats, u \in Users : resto(c, u) /\ UNCHANGED photos
DoPhoto ==
    \E c \in Chats, u \in Users, e \in Extractions :
        handle_receipt_photo(c, u, e) /\ UNCHANGED photos
DoChoice == \E i \in Ids(resto_items), u \in Users : handle_item_choice(i, u) /\ UNCHANGED photos
DoClosebill == \E c \in Chats, u \in Users : closebill(c, u) /\ UNCHANGED photos
DoCloseButton == \E c \in Chats, u \in Users : close_resto_button(c, u) /\ UNCHANGED photos

\* Pooled bills only.
NextBill ==
    \/ DoNewbill /\ Len(bills') <= MaxBills
    \/ DoJoin
    \/ DoExpense /\ Len(expenses') <= MaxExpenses
    \/ DoClosebill

SpecBill == Init /\ [][NextBill]_vars

\* Restaurant sessions only.
NextResto ==
    \/ DoResto /\ Len(resto_sessions') <= MaxRestos
    \/ DoPhoto
    \/ DoChoice
    \/ DoClosebill
    \/ DoCloseButton

SpecResto == Init /\ [][NextResto]_vars

\* Both kinds together, with at most MixRows rows in each child table and
\* one accepted and one refused input for the expense and receipt handlers.
MixTexts == {TextPizza, TextHi}
MixExtractions == {e \in Extractions : e.kind = "error" \/ e.items = <<Pizza>>}

Next ==
    \/ DoNewbill /\ Len(bills') <= MaxBills
    \/ DoJoin /\ Len(bill_participants') <= MixRows
    \/ \E c \in Chats, u \in Users, t \in MixTexts :
           handle_expense(c, u, t) /\ Len(expenses') <= MixRows /\ UNCHANGED photos
    \/ DoResto /\ Len(resto_sessions') <= MaxRestos
    \/ \E c \in Chats, u \in Users, e \in MixExtractions :
           handle_receipt_photo(c, u, e) /\ Len(resto_items') <= MixRows /\ UNCHANGED photos
    \/ DoChoice
    \/ DoClosebill
    \/ DoCloseButton

Spec == Init /\ [][Next]_vars

\* ------------------------------------------------------- several chats
\* Both kinds of session in every chat, all the updates coming from one
\* user, who is in every chat: up to one bill and one restaurant session
\* per chat in all, up to FrameRows participants and expenses, up to
\* MixRows line items, and the inputs of Next.
FrameUsers == {u \in Users : u <= 1}

NextFrame ==
    \/ \E c \in Chats, u \in FrameUsers :
           newbill(c, u) /\ Len(bills') <= NumChats /\ UNCHANGED photos
    \/ \E b \in Ids(bills), u \in FrameUsers :
           join_bill_callback(b, u) /\ Len(bill_participants') <= FrameRows
               /\ UNCHANGED photos
    \/ \E c \in Chats, u \in FrameUsers, t \in MixTexts :
           handle_expense(c, u, t) /\ Len(expenses') <= FrameRows /\ UNCHANGED photos
    \/ \E c \in Chats, u \in FrameUsers :
           resto(c, u) /\ Len(resto_sessions') <= NumChats /\ UNCHANGED photos
    \/ \E c \in Chats, u \in FrameUsers, e \in MixExtractions :
           handle_receipt_photo(c, u, e) /\ Len(resto_items') <= MixRows /\ UNCHANGED photos
    \/ \E i \in Ids(resto_items), u \in FrameUsers :
           handle_item_choice(i, u) /\ UNCHANGED photos
    \/ \E c \in Chats, u \in FrameUsers : closebill(c, u) /\ UNCHANGED photos
    \/ \E c \in Chats, u \in FrameUsers : close_resto_button(c, u) /\ UNCHANGED photos

SpecFrame == Init /\ [][NextFrame]_vars

\* ------------------------------------------------ coroutines interleaved
\* The restaurant handlers as coroutines of one event loop: a handler runs
\* without interruption from one await to the next.  Only
\* handle_receipt_photo awaits between its reads and its writes of the
\* database; every other handler does all its database work between two
\* awaits (q.answer() before, the reply after), so it is one step.  The
\* application built at line 804 leaves concurrent_updates at the library's
\* default; this specification is the handlers' behaviour once updates are
\* handled concurrently, the case the concurrency requirements are about.
DoPhotoCheck == \E c \in Chats, u \in Users : photo_check(c, u)
DoPhotoFinish == \E t \in BagToSet(photos), e \in MixExtractions : photo_finish(t, e)

NextAsync ==
    \/ DoResto /\ Len(resto_sessions') <= MaxRestos
    \/ DoPhotoCheck /\ BagCardinality(photos') <= MaxPhotos
    \/ DoPhotoFinish
    \/ DoChoice
    \/ DoClosebill
    \/ DoCloseButton

SpecAsync == Init /\ [][NextAsync]_vars

\* ------------------------------------------- minimize_transactions, alone
\* The balances handed to minimize_transactions: one entry for each of
\* SettleUsers users, in user order, each a multiple of Eps/2 up to MaxGrid
\* steps either way, or one of the larger amounts BigAmounts.
BigAmounts == {7 * Eps, 10 * Eps, -10 * Eps, 20 * Eps, -20 * Eps}

BalanceValues == {k * (Eps \div 2) : k \in -MaxGrid..MaxGrid} \cup BigAmounts

BalanceInputs ==
    {[u \in 1..SettleUsers |-> <<u, f[u]>>] : f \in [1..SettleUsers -> BalanceValues]}

InitSettle ==
    /\ bills = <<>>
    /\ bill_participants = <<>>
    /\ expenses = <<>>
    /\ resto_sessions = <<>>
    /\ resto_items = <<>>
    /\ resto_choices = EmptyBag
    /\ now = 0
    /\ out = Reply("Started")
    /\ mt_in \in BalanceInputs
    /\ mt = MTStart(mt_in)
    /\ mt_pc = "loop"
    /\ photos = EmptyBag

\* One iteration of the while loop, lines 213-227.
MTLoop ==
    /\ mt_pc = "loop" /\ MTRunning(mt)
    /\ mt' = MTStep(mt)
    /\ UNCHANGED <<db, now, out, mt_in, mt_pc, photos>>

\* The loop condition fails: return txs, line 228.
MTReturn ==
    /\ mt_pc = "loop" /\ ~MTRunning(mt)
    /\ mt_pc' = "done"
    /\ UNCHANGED <<db, now, out, mt_in, mt, photos>>

NextSettle == MTLoop \/ MTReturn

SpecSettle == InitSettle /\ [][NextSettle]_vars

\* The call runs to its end: a function that has been called keeps
\* executing until it returns.
SpecSettleFair == SpecSettle /\ WF_vars(NextSettle)

\* ================================================================ claims
\* The session most recently closed has closed_at = now.
LastClosedBill == CHOOSE b \in Ids(bills) : bills[b].closed_at = now
LastClosedResto == CHOOSE r \in Ids(resto_sessions) : resto_sessions[r].closed_at = now

NumOpen(chat_id) ==
    Cardinality(OpenIds(bills, chat_id)) + Cardinality(OpenIds(resto_sessions, chat_id))

\* C1: in every reachable state each chat has at most one open session,
\* bills and restaurant sessions counted together.
C1_OneOpenSessionPerChat == \A c \in Chats : NumOpen(c) <= 1

\* ------------------------------------------------------------------- C2
ItemRowsOf(session_id) == SelectSeq(resto_items, LAMBDA r : r.session_id = session_id)

ChoicesOf(session_id) ==
    [p \in {q \in DOMAIN resto_choices : q[1] \in ItemIdsOf(session_id)} |-> resto_choices[p]]

BillClosed(b) == bills[b].status = "closed"
RestoClosed(r) == resto_sessions[r].status = "closed"

\* A closed bill keeps its row (status, closing time), participants and expenses.
ClosedBillsFrozen ==
    \A b \in Ids(bills) :
        BillClosed(b) =>
            /\ bills'[b] = bills[b]
            /\ ParticipantsOf(b)' = ParticipantsOf(b)
            /\ ExpensesOf(b)' = ExpensesOf(b)

\* A closed restaurant session keeps its row, line items and claims.
ClosedRestosFrozen ==
    \A r \in Ids(resto_sessions) :
        RestoClosed(r) =>
            /\ resto_sessions'[r] = resto_sessions[r]
            /\ ItemRowsOf(r)' = ItemRowsOf(r)
            /\ ChoicesOf(r)' = ChoicesOf(r)

\* The calls that name the closed session itself, by bill id or item id,
\* are refused.
CallsAfterCloseFail ==
    /\ \A b \in Ids(bills), u \in Users :
           BillClosed(b) /\ join_bill_callback(b, u) => out'.result = "NotOpen" /\ UNCHANGED db
    /\ \A i \in Ids(resto_items), u \in Users :
           RestoClosed(resto_items[i].session_id) /\ handle_item_choice(i, u)
               => out'.result = "SessionClosed" /\ UNCHANGED db

\* The calls that name the chat (expense, receipt, close) act on a session
\* that is open: a row is added, a claim changed or a status changed only
\* for a session open before the step, and only then is success answered.
EffectsOnOpenOnly ==
    /\ (expenses' # expenses \/ out'.result = "Recorded") =>
           /\ Len(expenses') = Len(expenses) + 1
           /\ SubSeq(expenses', 1, Len(expenses)) = expenses
           /\ ~BillClosed(expenses'[Len(expenses')].bill_id)
           /\ out'.result = "Recorded"
    /\ (resto_items' # resto_items \/ out'.result = "Ingested") =>
           /\ SubSeq(resto_items', 1, Len(resto_items)) = resto_items
           /\ \A i \in Ids(resto_items') \ Ids(resto_items) :
                  ~RestoClosed(resto_items'[i].session_id)
           /\ out'.result = "Ingested"
    /\ (bills' # bills \/ out'.result = "BillClosed") /\ Len(bills') = Len(bills) =>
           /\ \E b \in Ids(bills) :
                  /\ ~BillClosed(b)
                  /\ bills' = [bills EXCEPT ![b].status = "closed", ![b].closed_at = now']
           /\ out'.result = "BillClosed"
    /\ (resto_sessions' # resto_sessions \/ out'.result = "RestoClosed")
       /\ Len(resto_sessions') = Len(resto_sessions) =>
           /\ \E r \in Ids(resto_sessions) :
                  /\ ~RestoClosed(r)
                  /\ resto_sessions' = [resto_sessions EXCEPT ![r].status = "closed",
                                                              ![r].closed_at = now']
           /\ out'.result = "RestoClosed"

\* C2: a closed session never reopens, every join, expense, receipt, claim
\* toggle or close issued against it afterwards fails, and its participants,
\* expenses, line items, claims, status and closing time never change.
C2_CloseIsFinal ==
    [][ClosedBillsFrozen /\ ClosedRestosFrozen /\ CallsAfterCloseFail /\ EffectsOnOpenOnly]_vars

\* C2 witness: a join was refused on a closed bill, in a chat that also has
\* a closed restaurant session with a line item.
C2_Witness ==
    /\ out.result = "NotOpen"
    /\ \E b \in Ids(bills) : BillClosed(b)
    /\ \E r \in Ids(resto_sessions) : RestoClosed(r) /\ ItemIdsOf(r) # {}

\* ------------------------------------------------------------------- C3
PosTotal(balances) ==
    SeqSum([k \in 1..Len(balances) |-> IF balances[k][2] > 0 THEN balances[k][2] ELSE 0])

NegTotal(balances) ==
    SeqSum([k \in 1..Len(balances) |-> IF balances[k][2] < 0 THEN -balances[k][2] ELSE 0])

Balanced(balances) == Abs(PosTotal(balances) - NegTotal(balances)) <= Eps

TxTotal(txs) == SeqSum([k \in 1..Len(txs) |-> txs[k][3]])

Sent(txs, u) == SeqSum([k \in 1..Len(txs) |-> IF txs[k][1] = u THEN txs[k][3] ELSE 0])

Received(txs, u) == SeqSum([k \in 1..Len(txs) |-> IF txs[k][2] = u THEN txs[k][3] ELSE 0])

\* What user number k of the mapping still owes, or is still owed, once
\* the transfers are applied.
Remaining(balances, txs, k) ==
    IF balances[k][2] < 0
    THEN -balances[k][2] - Sent(txs, balances[k][1])
    ELSE balances[k][2] - Received(txs, balances[k][1])

SettledWithin(tolerance) ==
    mt_pc = "done" /\ Balanced(mt_in) =>
        /\ Abs(TxTotal(mt.txs) - PosTotal(mt_in)) <= tolerance
        /\ \A k \in 1..Len(mt_in) : Abs(Remaining(mt_in, mt.txs, k)) <= tolerance

\* C3 as stated: for every balanced mapping the transfers returned sum to
\* the total within epsilon and leave nobody with more than epsilon.
C3_SettledWithinEps == SettledWithin(Eps)

\* C3 as amended: for every balanced mapping the transfers returned sum to
\* the total within epsilon times the number of users of the mapping, and
\* leave nobody with more than that.
C3_SettledWithinEpsPerUser == SettledWithin(Eps * Len(mt_in))

\* C3 witness: a balanced mapping for which a transfer is returned and a
\* remainder of more than epsilon is left to one user.
C3_Witness ==
    /\ mt_pc = "done" /\ Balanced(mt_in)
    /\ Len(mt.txs) >= 1
    /\ \E k \in 1..Len(mt_in) : Abs(Remaining(mt_in, mt.txs, k)) > Eps

\* ------------------------------------------------------------------- C4
BalanceSum(balances) == SeqSum([k \in 1..Len(balances) |-> balances[k][2]])

\* C4: every stored expense was paid by a participant of its bill, and the
\* balances computed when a bill is closed sum to zero.
C4_BalancesSumToZero ==
    /\ \A k \in 1..Len(expenses) : IsParticipant(expenses[k].bill_id, expenses[k].user_id)
    /\ out.result = "BillClosed" =>
           /\ Len(out.balances) = Len(ParticipantsOf(LastClosedBill))
           /\ BalanceSum(out.balances) = 0

\* C4 witness: a bill closed with two participants or more and a balance
\* that is not zero.
C4_Witness ==
    /\ out.result = "BillClosed"
    /\ Len(out.balances) >= 2
    /\ \E k \in 1..Len(out.balances) : out.balances[k][2] # 0

\* ------------------------------------------------------------------- C5
\* What user u paid into bill b, and what was paid into it in all, summed
\* over the rows of expenses.
PaidBy(b, u) ==
    SeqSum([k \in 1..Len(expenses) |->
               IF expenses[k].bill_id = b /\ expenses[k].user_id = u
               THEN expenses[k].amount ELSE 0])

PaidInto(b) ==
    SeqSum([k \in 1..Len(expenses) |-> IF expenses[k].bill_id = b THEN expenses[k].amount ELSE 0])

Sums(x) == x * Scale

\* Participants 1 (A), 2 (B), 3 (C); A paid 90000, B nothing, C 30000.
C5_Scenario(b) ==
    /\ {ParticipantsOf(b)[k] : k \in 1..Len(ParticipantsOf(b))} = {1, 2, 3}
    /\ PaidBy(b, 1) = Sums(90000) /\ PaidBy(b, 2) = 0 /\ PaidBy(b, 3) = Sums(30000)

\* C5: the balances of a closed bill are, participant by participant, what
\* the participant paid minus the total over the number of participants,
\* the transfers are the settlement of these balances, and in the scenario
\* the balances are +50000, -40000, -10000 and the transfers are exactly
\* B->A 40000 followed by C->A 10000.
C5_CloseComputesEqualSplit ==
    out.result = "BillClosed" =>
        LET b == LastClosedBill
            participants == ParticipantsOf(b)
            n == Len(participants)
        IN  /\ Len(out.balances) = n
            /\ \A k \in 1..n :
                   /\ out.balances[k][1] = participants[k]
                   /\ n * out.balances[k][2] = n * PaidBy(b, participants[k]) - PaidInto(b)
            /\ out.txs = minimize_transactions(out.balances)
            /\ C5_Scenario(b) =>
                   /\ {out.balances[k] : k \in 1..n} =
                          {<<1, Sums(50000)>>, <<2, -Sums(40000)>>, <<3, -Sums(10000)>>}
                   /\ out.txs = << <<2, 1, Sums(40000)>>, <<3, 1, Sums(10000)>> >>

\* C5 witness: the scenario's bill was closed.
C5_Witness == out.result = "BillClosed" /\ C5_Scenario(LastClosedBill)

\* ------------------------------------------------------------------- C9
\* C9: an expense message from a user who has not joined the chat's open
\* bill is refused and adds no expense, whatever the bill holds.
C9_NonParticipantRefused ==
    [][\/ out'.result = "NotAParticipant" /\ UNCHANGED db
       \/ \A c \in Chats, u \in Users, t \in ExpenseTexts :
              ~(/\ OpenIds(bills, c) # {}
                /\ ~IsParticipant(FetchOne(OpenIds(bills, c)), u)
                /\ handle_expense(c, u, t))]_vars

\* C9 witness: an expense was refused for a user who has not joined a bill
\* that has participants and expenses.
C9_Witness ==
    /\ out.result = "NotAParticipant"
    /\ \E b \in Ids(bills) :
           bills[b].status = "open" /\ ParticipantsOf(b) # <<>> /\ ExpensesOf(b) # <<>>

\* ------------------------------------------------------------------- C6
Claimants(item_id) == {u \in Users : BagIn(<<item_id, u>>, resto_choices)}

\* The least common multiple of the possible numbers of claimants.
Den == LcmUpTo(NumUsers)

\* Den times what the claim split attributes to user u in session r: each
\* item u claims, with k claimants, counts for price * quantity / k.
DenTimesCostOf(r, u) ==
    SeqSum([i \in 1..Len(resto_items) |->
               IF resto_items[i].session_id = r /\ u \in Claimants(i)
               THEN resto_items[i].price * resto_items[i].quantity
                        * (Den \div Cardinality(Claimants(i)))
               ELSE 0])

\* Pizza 50000 x 1 claimed by 1 (A) and 2 (B), Cola 10000 x 2 claimed by A.
C6_Scenario(r) ==
    \E pizza, cola \in ItemIdsOf(r) :
        /\ ItemIdsOf(r) = {pizza, cola}
        /\ resto_items[pizza].price = Sums(50000) /\ resto_items[pizza].quantity = 1
        /\ resto_items[cola].price = Sums(10000) /\ resto_items[cola].quantity = 2
        /\ Claimants(pizza) = {1, 2}
        /\ Claimants(cola) = {1}

\* C6: at the close of a restaurant session every participant's cost is the
\* sum, over the items the participant claimed, of price * quantity / k for
\* the item's k claimants, so that an unclaimed item adds nothing to anyone;
\* in the scenario A's cost is 45000 and B's is 25000.
C6_CloseComputesClaimSplit ==
    out.result = "RestoClosed" =>
        LET r == LastClosedResto
        IN  /\ DOMAIN out.costs = RestoParticipants(r)
            /\ \A u \in DOMAIN out.costs : Den * out.costs[u] = DenTimesCostOf(r, u)
            /\ C6_Scenario(r) => out.costs[1] = Sums(45000) /\ out.costs[2] = Sums(25000)

\* C6 witness: the scenario's session was closed.
C6_Witness == out.result = "RestoClosed" /\ C6_Scenario(LastClosedResto)

\* ------------------------------------------------------------------- C7
\* C7: a claim toggle on an open session flips the claim of that user on
\* that item, leaves every other claim as it was, and a second toggle by
\* the same user on the same item gives back the claims held before the
\* first.
C7_DoubleToggleRestores ==
    [][\A i \in Ids(resto_items), u \in Users :
           ToggleAllowed(i) /\ handle_item_choice(i, u) =>
               /\ Copies(resto_choices', i, u) = (IF Copies(resto_choices, i, u) > 0 THEN 0 ELSE 1)
               /\ \A p \in (Ids(resto_items) \X Users) \ {<<i, u>>} :
                      CopiesIn(p, resto_choices') = CopiesIn(p, resto_choices)
               /\ ToggleAllowed(i)'
               /\ ToggleChoice(resto_choices', i, u) = resto_choices]_vars

\* C7 witness: a claim was just removed by a second toggle while other
\* claims are held.
C7_Witness == out.result = "Unclaimed" /\ resto_choices # EmptyBag

\* ------------------------------------------------------------------- C8
\* C8: a receipt sent by the creator for a session that has line items is
\* answered AlreadyIngested and changes nothing, and the line items of a
\* session, once it has any, never change.
C8_SecondReceiptRefused ==
    [][/\ \A c \in Chats, u \in Users, e \in Extractions :
              /\ OpenIds(resto_sessions, c) # {}
              /\ ItemIdsOf(FetchOne(OpenIds(resto_sessions, c))) # {}
              /\ u = resto_sessions[FetchOne(OpenIds(resto_sessions, c))].creator_id
              /\ handle_receipt_photo(c, u, e)
              => out'.result = "AlreadyIngested" /\ UNCHANGED db
       /\ \A r \in Ids(resto_sessions) :
              ItemIdsOf(r) # {} => ItemRowsOf(r)' = ItemRowsOf(r)]_vars

\* C8 witness: a second receipt was refused for a session whose items are
\* already claimed.
C8_Witness ==
    /\ out.result = "AlreadyIngested"
    /\ resto_choices # EmptyBag

\* ------------------------------------------------------------------ C10
CreatesOpenBill(c, u) == \E b \in OpenIds(bills, c) : bills[b].creator_id = u
CreatesOpenResto(c, u) == \E r \in OpenIds(resto_sessions, c) : resto_sessions[r].creator_id = u

\* C10: a close request, by /closebill or by the close button, changes no
\* session the requester did not create, and a requester who created none
\* of the open sessions the request can reach is answered Forbidden with
\* nothing changed.
C10_OnlyCreatorCloses ==
    [][/\ \A b \in Ids(bills) :
              bills'[b] # bills[b] =>
                  \A c \in Chats, u \in Users :
                      closebill(c, u) \/ close_resto_button(c, u) => u = bills[b].creator_id
       /\ \A r \in Ids(resto_sessions) :
              resto_sessions'[r] # resto_sessions[r] =>
                  \A c \in Chats, u \in Users :
                      closebill(c, u) \/ close_resto_button(c, u)
                          => u = resto_sessions[r].creator_id
       /\ \A c \in Chats, u \in Users :
              /\ NumOpen(c) > 0 /\ ~CreatesOpenBill(c, u) /\ ~CreatesOpenResto(c, u)
                 /\ closebill(c, u)
                 => out'.result = "Forbidden" /\ UNCHANGED <<db, now>>
              /\ OpenIds(resto_sessions, c) # {} /\ ~CreatesOpenResto(c, u)
                 /\ close_resto_button(c, u)
                 => out'.result = "Forbidden" /\ UNCHANGED <<db, now>>]_vars

\* C10 witness: a close was refused in a chat whose only open session is a
\* restaurant session with a line item.
C10_Witness ==
    /\ out.result = "Forbidden"
    /\ \E c \in Chats :
           /\ OpenIds(bills, c) = {}
           /\ \E r \in OpenIds(resto_sessions, c) : ItemIdsOf(r) # {}

\* ------------------------------------------------------------------ C11
\* C11: /closebill by the creator of the chat's open bill answers
\* NoParticipants when the bill has no participants and NoExpenses when it
\* has participants but no expenses, in both cases with the tables
\* unchanged, the bill open and no settlement in the answer; when the bill
\* has participants and expenses the close succeeds.
C11_EmptyBillNotClosed ==
    [][\A c \in Chats, u \in Users :
           /\ OpenIds(bills, c) # {}
           /\ u = bills[FetchOne(OpenIds(bills, c))].creator_id
           /\ closebill(c, u)
           => LET b == FetchOne(OpenIds(bills, c))
              IN  /\ ParticipantsOf(b) = <<>> =>
                         out' = Reply("NoParticipants") /\ UNCHANGED <<db, now>>
                  /\ ParticipantsOf(b) # <<>> /\ ExpensesOf(b) = <<>> =>
                         out' = Reply("NoExpenses") /\ UNCHANGED <<db, now>>
                  /\ ParticipantsOf(b) # <<>> /\ ExpensesOf(b) # <<>> =>
                         out'.result = "BillClosed" /\ bills'[b].status = "closed"]_vars

\* C11 witness: a close was refused for want of expenses on an open bill
\* that has participants.
C11_Witness ==
    /\ out = Reply("NoExpenses")
    /\ \E b \in Ids(bills) :
           bills[b].status = "open" /\ ParticipantsOf(b) # <<>> /\ ExpensesOf(b) = <<>>

\* ------------------------------------------------------------------ C12
\* C12: every stored expense has a strictly positive amount.
C12_StoredAmountsPositive == \A k \in 1..Len(expenses) : expenses[k].amount > 0

C14_CloseSeesStoredClaims ==
    [][\A r \in Ids(resto_sessions) :
           /\ ~RestoClosed(r) /\ RestoClosed(r)' =>
                  /\ out'.result = "RestoClosed"
                  /\ resto_choices' = resto_choices
                  /\ DOMAIN out'.costs = RestoParticipants(r)'
                  /\ \A u \in DOMAIN out'.costs : Den * out'.costs[u] = DenTimesCostOf(r, u)'
           /\ RestoClosed(r) => ChoicesOf(r)' = ChoicesOf(r)]_vars

\* C14 witness: a toggle was refused on a session that was closed with
\* claims on its items.
C14_Witness ==
    /\ out.result = "SessionClosed"
    /\ \E r \in Ids(resto_sessions) : RestoClosed(r) /\ ChoicesOf(r) # EmptyBag

\* ------------------------------------------------------------------ C15
\* C15: with the handlers interleaved at their awaits, resto_choices holds
\* at most one row for each (item, user) pair in every reachable state.
C15_OneClaimPerItemAndUser == \A p \in DOMAIN resto_choices : resto_choices[p] <= 1

\* C15 witness: an item is claimed by two users and a claim was just
\* removed by a repeated toggle.
C15_Witness ==
    /\ out.result = "Unclaimed"
    /\ \E i \in Ids(resto_items) : Cardinality(Claimants(i)) >= 2

\* ------------------------------------------------------------------ C16
NoDuplicateParticipants ==
    \A j, k \in 1..Len(bill_participants) :
        bill_participants[j] = bill_participants[k] => j = k

HasJoined(bill_id, user_id) ==
    \E k \in 1..Len(ParticipantsOf(bill_id)) : ParticipantsOf(bill_id)[k] = user_id

\* C16: a user appears at most once among the participants of a bill, and a
\* join by a user who already joined is refused and leaves every table as
\* it was.
C16_JoinOnce ==
    [][/\ NoDuplicateParticipants /\ NoDuplicateParticipants'
       /\ \A b \in Ids(bills), u \in Users :
              HasJoined(b, u) /\ join_bill_callback(b, u) =>
                  /\ out'.result \in {"AlreadyJoined", "NotOpen"}
                  /\ UNCHANGED <<db, now>>]_vars

\* C16 witness: a repeated join was refused on an open bill that has
\* another participant and an expense.
C16_Witness ==
    /\ out.result = "AlreadyJoined"
    /\ \E b \in Ids(bills) :
           bills[b].status = "open" /\ Len(ParticipantsOf(b)) >= 2 /\ ExpensesOf(b) # <<>>

\* ------------------------------------------------------------------ C17
FailedExtraction(e) == e.kind \in {"error", "unparsable"} \/ e.items = <<>>

\* C17: a receipt of the creator whose extraction fails, is unparsable or
\* yields an empty list leaves every table as it was, and a receipt of the
\* creator for an open session without line items whose extraction yields a
\* valid item is accepted and its valid items stored.
C17_FailedExtractionLeavesSession ==
    [][\A c \in Chats, u \in Users, e \in Extractions :
           /\ OpenIds(resto_sessions, c) # {}
           /\ ItemIdsOf(FetchOne(OpenIds(resto_sessions, c))) = {}
           /\ u = resto_sessions[FetchOne(OpenIds(resto_sessions, c))].creator_id
           /\ handle_receipt_photo(c, u, e)
           => LET r == FetchOne(OpenIds(resto_sessions, c))
              IN  /\ FailedExtraction(e) =>
                         /\ out'.result \in {"ExtractionError", "ExtractionUnparsable",
                                             "ExtractionEmpty"}
                         /\ UNCHANGED <<db, now>>
                  /\ ~FailedExtraction(e) /\ InsertItems(r, e.items) # <<>> =>
                         /\ out'.result = "Ingested"
                         /\ ItemRowsOf(r)' = InsertItems(r, e.items)]_vars

\* C17 witness: an extraction returned an empty list for an open session,
\* which has no line items.
C17_Witness ==
    /\ out.result = "ExtractionEmpty"
    /\ \E r \in Ids(resto_sessions) : ~RestoClosed(r) /\ ItemIdsOf(r) = {}

\* ------------------------------------------------------------------ C18
\* C18: a receipt of the creator, for an open session without line items,
\* whose extraction yields a non-empty list stores exactly the valid
\* candidates, and when none is valid it is answered NoValidItems and not
\* as an ingestion.
C18_NoValidItemsRefused ==
    [][\A c \in Chats, u \in Users, e \in Extractions :
           /\ OpenIds(resto_sessions, c) # {}
           /\ ItemIdsOf(FetchOne(OpenIds(resto_sessions, c))) = {}
           /\ u = resto_sessions[FetchOne(OpenIds(resto_sessions, c))].creator_id
           /\ e.kind = "items" /\ e.items # <<>>
           /\ handle_receipt_photo(c, u, e)
           => LET r == FetchOne(OpenIds(resto_sessions, c))
              IN  /\ ItemRowsOf(r)' = InsertItems(r, e.items)
                  /\ InsertItems(r, e.items) = <<>> => out'.result = "NoValidItems"
                  /\ InsertItems(r, e.items) # <<>> => out'.result = "Ingested"]_vars

\* ------------------------------------------------------------------ C19
\* Everything stored for chat c: its bills with their participants and
\* expenses, its restaurant sessions with their line items and claims.
ChatRows(c) ==
    <<[b \in {x \in Ids(bills) : bills[x].chat_id = c} |->
          <<bills[b], ParticipantsOf(b), ExpensesOf(b)>>],
      [r \in {x \in Ids(resto_sessions) : resto_sessions[x].chat_id = c} |->
          <<resto_sessions[r], ItemRowsOf(r), ChoicesOf(r)>>]>>

\* C19: /newbill, /resto, an expense message, /closebill or the close
\* button handled for one chat leaves unchanged every session, participant,
\* expense, line item and claim of every other chat, whatever was handled
\* before in either chat.
C19_OtherChatsUntouched ==
    [][\A c \in Chats :
           \/ \A other \in Chats \ {c} : ChatRows(other)' = ChatRows(other)
           \/ ~\E u \in Users :
                  \/ newbill(c, u)
                  \/ resto(c, u)
                  \/ \E t \in MixTexts : handle_expense(c, u, t)
                  \/ closebill(c, u)
                  \/ close_resto_button(c, u)]_vars

\* C19 witness: an expense was recorded in a chat while another chat holds
\* a bill with a participant and an expense and a restaurant session with a
\* claimed line item.
C19_Witness ==
    /\ out.result = "Recorded"
    /\ \E c \in Chats, other \in Chats :
           /\ c # other
           /\ \E b \in OpenIds(bills, c) :
                  expenses # <<>> /\ expenses[Len(expenses)].bill_id = b
           /\ \E b \in Ids(bills) :
                  /\ bills[b].chat_id = other
                  /\ ParticipantsOf(b) # <<>> /\ ExpensesOf(b) # <<>>
           /\ \E r \in Ids(resto_sessions) :
                  /\ resto_sessions[r].chat_id = other
                  /\ ChoicesOf(r) # EmptyBag

PosOf(u) == CHOOSE k \in 1..Len(mt_in) : mt_in[k][1] = u

DebtLeft(u, n) == -mt_in[PosOf(u)][2] - Sent(SubSeq(mt.txs, 1, n), u)

CreditLeft(u, n) == mt_in[PosOf(u)][2] - Received(SubSeq(mt.txs, 1, n), u)

\* The debtors and creditors not yet settled after the first n transfers.
OpenDebtors(n) ==
    {mt_in[k][1] : k \in {x \in 1..Len(mt_in) :
                              mt_in[x][2] < -Eps /\ DebtLeft(mt_in[x][1], n) > Eps}}

OpenCreditors(n) ==
    {mt_in[k][1] : k \in {x \in 1..Len(mt_in) :
                              mt_in[x][2] > Eps /\ CreditLeft(mt_in[x][1], n) > Eps}}

\* u comes before v in the lists sorted at lines 209-210: larger input
\* magnitude first, equal magnitudes in the order of the mapping.
SortedBefore(u, v) ==
    \/ Abs(mt_in[PosOf(u)][2]) > Abs(mt_in[PosOf(v)][2])
    \/ Abs(mt_in[PosOf(u)][2]) = Abs(mt_in[PosOf(v)][2]) /\ PosOf(u) < PosOf(v)

\* Transfer number n is between two unsettled parties, for the smaller of
\* what they have left, and the party of transfer n - 1 was left only with
\* at most epsilon remaining.
TransferWellFormed(n) ==
    LET tx   == mt.txs[n]
        debt == DebtLeft(tx[1], n - 1)
        cred == CreditLeft(tx[2], n - 1)
    IN  /\ tx[1] \in OpenDebtors(n - 1)
        /\ tx[2] \in OpenCreditors(n - 1)
        /\ tx[3] = (IF debt <= cred THEN debt ELSE cred)
        /\ n > 1 /\ mt.txs[n - 1][1] # tx[1] => DebtLeft(mt.txs[n - 1][1], n - 1) <= Eps
        /\ n > 1 /\ mt.txs[n - 1][2] # tx[2] => CreditLeft(mt.txs[n - 1][2], n - 1) <= Eps

\* C21 as stated: every transfer is from the unsettled debtor with the
\* largest remaining debt to the unsettled creditor with the largest
\* remaining credit, for the smaller of the two remainders, and a party is
\* left only once at most epsilon remains.
C21_TakesLargestRemaining ==
    \A n \in 1..Len(mt.txs) :
        /\ TransferWellFormed(n)
        /\ \A v \in OpenDebtors(n - 1) : DebtLeft(v, n - 1) <= DebtLeft(mt.txs[n][1], n - 1)
        /\ \A v \in OpenCreditors(n - 1) :
               CreditLeft(v, n - 1) <= CreditLeft(mt.txs[n][2], n - 1)

\* C21 as amended: every transfer is from the first unsettled debtor to the
\* first unsettled creditor in the order of the lists sorted once by input
\* magnitude, for the smaller of the two remainders, and a party is left
\* only once at most epsilon remains.
C21_TakesFirstInSortedOrder ==
    \A n \in 1..Len(mt.txs) :
        /\ TransferWellFormed(n)
        /\ \A v \in OpenDebtors(n - 1) \ {mt.txs[n][1]} : SortedBefore(mt.txs[n][1], v)
        /\ \A v \in OpenCreditors(n - 1) \ {mt.txs[n][2]} : SortedBefore(mt.txs[n][2], v)

\* C21 witness: a transfer was made by a debtor who had less left to pay
\* than another unsettled debtor.
C21_Witness ==
    \E n \in 1..Len(mt.txs) :
        \E v \in OpenDebtors(n - 1) : DebtLeft(v, n - 1) > DebtLeft(mt.txs[n][1], n - 1)

\* ------------------------------------------------------------------ C22
NumDebtors == Cardinality({k \in 1..Len(mt_in) : mt_in[k][2] < -Eps})
NumCreditors == Cardinality({k \in 1..Len(mt_in) : mt_in[k][2] > Eps})

\* An iteration of the loop records one transfer and moves past the
\* current debtor, the current creditor or both.
LoopAdvances ==
    mt' # mt =>
        /\ Len(mt'.txs) = Len(mt.txs) + 1
        /\ mt'.i >= mt.i /\ mt'.j >= mt.j
        /\ mt'.i + mt'.j > mt.i + mt.j

\* There are never more transfers than debtors and creditors less one, and
\* none when there is no debtor or no creditor.
TransfersBounded ==
    /\ NumDebtors > 0 /\ NumCreditors > 0 => Len(mt.txs) <= NumDebtors + NumCreditors - 1
    /\ NumDebtors = 0 \/ NumCreditors = 0 => mt.txs = <<>>

\* C22: minimize_transactions returns for every balance mapping, every
\* iteration of its loop moves past a debtor or a creditor, and it returns
\* at most (debtors + creditors - 1) transfers, none when a side is empty.
C22_Terminates == [][LoopAdvances]_vars /\ []TransfersBounded /\ <>(mt_pc = "done")

\* C22 witness: a call returned with two debtors, two creditors and three
\* transfers.
C22_Witness ==
    /\ mt_pc = "done"
    /\ NumDebtors = 2 /\ NumCreditors = 2
    /\ Len(mt.txs) = 3

\* ------------------------------------------------------------------ C23
\* C23: every transfer returned goes from a user whose input balance is
\* below -epsilon to another user whose input balance is above epsilon, for
\* more than epsilon; no debtor sends more than the debt and no creditor
\* receives more than the credit.
C23_TransfersWithinBalances ==
    /\ \A n \in 1..Len(mt.txs) :
           /\ mt_in[PosOf(mt.txs[n][1])][2] < -Eps
           /\ mt_in[PosOf(mt.txs[n][2])][2] > Eps
           /\ mt.txs[n][1] # mt.txs[n][2]
           /\ mt.txs[n][3] > Eps
    /\ \A k \in 1..Len(mt_in) :
           /\ Sent(mt.txs, mt_in[k][1]) <= (IF mt_in[k][2] < 0 THEN -mt_in[k][2] ELSE 0)
           /\ Received(mt.txs, mt_in[k][1]) <= (IF mt_in[k][2] > 0 THEN mt_in[k][2] ELSE 0)

\* C23 witness: a call returned two transfers or more for a mapping in
\* which one user owes something, but no more than epsilon.
C23_Witness ==
    /\ mt_pc = "done"
    /\ Len(mt.txs) >= 2
    /\ \E k \in 1..Len(mt_in) : mt_in[k][2] < 0 /\ mt_in[k][2] >= -Eps

\* ------------------------------------------------------------------ C24
\* What a close of restaurant session r by its creator must do: close r,
\* never answer NoParticipants, list the creator and every claimant, and
\* charge nothing to a creator who claimed nothing.
ClosesResto(r) ==
    /\ out'.result = "RestoClosed"
    /\ RestoClosed(r)'
    /\ DOMAIN out'.costs =
           {u \in Users : \E i \in ItemIdsOf(r) : u \in Claimants(i)}
               \cup {resto_sessions[r].creator_id}
    /\ (\A i \in ItemIdsOf(r) : resto_sessions[r].creator_id \notin Claimants(i))
           => out'.costs[resto_sessions[r].creator_id] = 0

\* C24: a close requested by the creator of the chat's open restaurant
\* session, by /closebill or by the close button, always succeeds, with or
\* without line items and claims.
C24_CreatorCloseSucceeds ==
    [][\A c \in Chats :
           OpenIds(resto_sessions, c) # {} =>
               /\ \A r \in {FetchOne(OpenIds(resto_sessions, c))} :
                      closebill(c, resto_sessions[r].creator_id) => ClosesResto(r)
               /\ \A r \in {SetMax(OpenIds(resto_sessions, c))} :
                      close_resto_button(c, resto_sessions[r].creator_id)
                          => ClosesResto(r)]_vars

\* ------------------------------------------------------------------ C25
OneOpenPerKind ==
    \A c \in Chats :
        /\ Cardinality(OpenIds(bills, c)) <= 1
        /\ Cardinality(OpenIds(resto_sessions, c)) <= 1

\* C25: a chat never has two open bills nor two open restaurant sessions;
\* a create request for a chat that has an open session of the kind is
\* refused and changes nothing, and one for a chat that has none opens
\* exactly one, in every interleaving of the create requests.
C25_OneOpenSessionPerKind ==
    [][/\ OneOpenPerKind /\ OneOpenPerKind'
       /\ \A c \in Chats, u \in Users :
              /\ newbill(c, u) =>
                     IF OpenIds(bills, c) # {}
                     THEN out'.result = "AlreadyOpen" /\ UNCHANGED <<db, now>>
                     ELSE Cardinality(OpenIds(bills, c)') = 1 /\ out'.result = "BillCreated"
              /\ resto(c, u) =>
                     IF OpenIds(resto_sessions, c) # {}
                     THEN out'.result = "AlreadyOpen" /\ UNCHANGED <<db, now>>
                     ELSE Cardinality(OpenIds(resto_sessions, c)') = 1
                          /\ out'.result = "RestoCreated"]_vars

\* C25 witness: a create request was refused in a chat that has a closed
\* bill and, created after it, an open one.
C25_Witness ==
    /\ out.result = "AlreadyOpen"
    /\ \E c \in Chats :
           /\ OpenIds(bills, c) # {}
           /\ \E b \in Ids(bills) : bills[b].chat_id = c /\ BillClosed(b)

=============================================================================
